---- MODULE Spec2Model ----
(***************************************************************************)
(* A model of png_size.py (src/sb/1.py): the PNG dimension query           *)
(* get_png_dimensions, the header patch modify_png_dimensions and the      *)
(* command dispatch of main.  Files are byte sequences; offsets are the    *)
(* 0-based offsets of the Python code.                                     *)
(***************************************************************************)
EXTENDS Integers, Sequences, FiniteSets, TLC

(***************************************************************************)
(* Python values.                                                          *)
(*                                                                         *)
(* A Python int n is the record [hi, lo] with n = hi * 2^16 + lo and       *)
(* 0 <= lo < 2^16, so that every unsigned 32-bit field, and values one     *)
(* step beyond it, are within the checker's integers.                      *)
(***************************************************************************)
\* Python None, where an int, a float or a record is expected
None == [none |-> TRUE]

\* a file that does not exist
NoFile == <<-1>>

\* the float conversions take Python ints below 2^(HiWidth + 16)
HiWidth == 18

Limb == 256 * 256

PyInt(n) == [hi |-> n \div Limb, lo |-> n % Limb]

Norm(hi, lo) == [hi |-> hi + (lo \div Limb), lo |-> lo % Limb]

IntAdd(a, b) == Norm(a.hi + b.hi, a.lo + b.lo)

IntSub(a, b) == Norm(a.hi - b.hi, a.lo - b.lo)

IntLt(a, b) == a.hi < b.hi \/ (a.hi = b.hi /\ a.lo < b.lo)

IntLe(a, b) == a = b \/ IntLt(a, b)

IntNeg(a) == Norm(-a.hi, -a.lo)

IntHalf(a) == [hi |-> a.hi \div 2, lo |-> (a.lo + Limb * (a.hi % 2)) \div 2]

IntMax(a, b) == IF IntLt(a, b) THEN b ELSE a

\* a Python int known to be a small offset, as a plain integer
Small(a) == a.hi * Limb + a.lo

(***************************************************************************)
(* Bytes and slices.  png_data[a:b] clips to the buffer, as Python does.   *)
(***************************************************************************)
Min(a, b) == IF a < b THEN a ELSE b

\* the element of a one-element set.  The({F(x) : x \in {e}}) is F(e) with e computed
\* once, however often F uses it
The(S) == CHOOSE x \in S : TRUE

Slice(data, a, b) == IF a >= Len(data) THEN <<>> ELSE SubSeq(data, a + 1, Min(b, Len(data)))

PNG_SIGNATURE == <<137, 80, 78, 71, 13, 10, 26, 10>>

IHDR == <<73, 72, 68, 82>>

IEND == <<73, 69, 78, 68>>

IDAT == <<73, 68, 65, 84>>

(***************************************************************************)
(* struct.unpack('>I', b)[0] and struct.pack('>I', n).  unpack raises      *)
(* struct.error unless b holds exactly 4 bytes; pack raises it unless      *)
(* 0 <= n <= 0xFFFFFFFF.                                                   *)
(***************************************************************************)
CanUnpack(b) == Len(b) = 4

unpack(b) == [hi |-> b[1] * 256 + b[2], lo |-> b[3] * 256 + b[4]]

CanPack(n) == n.hi >= 0 /\ n.hi < Limb

\* a variant of pack: the least significant byte first ('<I')
pack_le(n) == <<n.lo % 256, n.lo \div 256, n.hi % 256, n.hi \div 256>>

pack(n) == <<n.hi \div 256, n.hi % 256, n.lo \div 256, n.lo % 256>>

(***************************************************************************)
(* zlib.crc32: the reflected CRC-32 (polynomial 0xEDB88320), table driven  *)
(* as in zlib.  A 32-bit register is held as its 4 bytes, most significant *)
(* first.                                                                  *)
(***************************************************************************)
RECURSIVE BitXor(_, _, _)
BitXor(a, b, n) ==
    IF n = 0 THEN 0
    ELSE ((a + b) % 2) + 2 * BitXor(a \div 2, b \div 2, n - 1)

NibXor == [a \in 0..15 |-> [b \in 0..15 |-> BitXor(a, b, 4)]]

Xor8(a, b) == 16 * NibXor[a \div 16][b \div 16] + NibXor[a % 16][b % 16]

Xor32(c, d) == <<Xor8(c[1], d[1]), Xor8(c[2], d[2]), Xor8(c[3], d[3]), Xor8(c[4], d[4])>>

Shr1(c) ==
    << c[1] \div 2,
       (c[1] % 2) * 128 + (c[2] \div 2),
       (c[2] % 2) * 128 + (c[3] \div 2),
       (c[3] % 2) * 128 + (c[4] \div 2) >>

CrcPoly == <<237, 184, 131, 32>>

RECURSIVE CrcBits(_, _)
CrcBits(c, k) ==
    IF k = 0 THEN c
    ELSE The({CrcBits(d, k - 1) : d \in {IF c[4] % 2 = 1 THEN Xor32(CrcPoly, Shr1(c)) ELSE Shr1(c)}})

crc_table == [n \in 0..255 |-> CrcBits(<<0, 0, 0, n>>, 8)]

\* the register st.c after the first st.i bytes of data, taken to the first n bytes
\* (by halves, which keeps the evaluation shallow)
RECURSIVE CrcUpdate(_, _, _)
CrcUpdate(st, data, n) ==
    IF st.i >= n THEN st
    ELSE IF st.i + 1 = n
    THEN The({[i |-> n, c |-> Xor32(t, <<0, st.c[1], st.c[2], st.c[3]>>)] :
                 t \in {crc_table[Xor8(st.c[4], data[n])]}})
    ELSE The({CrcUpdate(half, data, n) : half \in {CrcUpdate(st, data, (st.i + n) \div 2)}})

crc32(data) ==
    LET ones == <<255, 255, 255, 255>>
    IN  The({[hi |-> c[1] * 256 + c[2], lo |-> c[3] * 256 + c[4]] :
                c \in {The({Xor32(st.c, ones) :
                               st \in {CrcUpdate([i |-> 0, c |-> ones], data, Len(data))}})}})

(***************************************************************************)
(* Python floats (IEEE-754 binary64, round to nearest, ties to even).      *)
(* A float is [s, m, e]: sign s, mantissa m (MantBits bits, most           *)
(* significant first, the first one 1) and exponent e of the mantissa's    *)
(* last bit; zero has the empty mantissa.  Only what the program uses is   *)
(* modelled: int / int, int * float, float("<decimal>") and int(float).    *)
(***************************************************************************)
MantBits == 53

\* the last k bits of n >= 0, most significant first
BitsOf(n, k) == [j \in 1..k |-> (n \div (2 ^ (k - j))) % 2]

\* the bits of a Python int 0 <= n < 2^(HiWidth + 16), most significant first
IntBits(n) == BitsOf(n.hi, HiWidth) \o BitsOf(n.lo, 16)

\* the Python int st.acc of the first st.i bits, taken to the first n bits (by halves)
RECURSIVE BitsToInt(_, _, _)
BitsToInt(st, bits, n) ==
    IF st.i >= n THEN st
    ELSE IF st.i + 1 = n
    THEN [i |-> n, acc |-> Norm(2 * st.acc.hi, 2 * st.acc.lo + bits[n])]
    ELSE The({BitsToInt(half, bits, n) : half \in {BitsToInt(st, bits, (st.i + n) \div 2)}})

FloatZero == [s |-> 1, m |-> <<>>, e |-> 0]

FirstOne(bits) ==
    IF \E i \in 1..Len(bits) : bits[i] = 1
    THEN CHOOSE i \in 1..Len(bits) : bits[i] = 1 /\ \A j \in 1..(i - 1) : bits[j] = 0
    ELSE 0

\* the mantissa m, whose bit k is its last 0, plus one
IncrAt(m, k) == [j \in 1..Len(m) |-> IF j < k THEN m[j] ELSE IF j = k THEN 1 ELSE 0]

Incr(m) ==
    The({IncrAt(m, k) :
            k \in {CHOOSE k \in 1..Len(m) : m[k] = 0 /\ \A j \in (k + 1)..Len(m) : m[j] = 1}})

\* the float of sign s and mantissa m, the exponent of its last bit e1, rounded up iff up
RoundUp(s, m, e1, up) ==
    IF ~up THEN [s |-> s, m |-> m, e |-> e1]
    ELSE IF \A j \in 1..MantBits : m[j] = 1
    THEN [s |-> s, m |-> [j \in 1..MantBits |-> IF j = 1 THEN 1 ELSE 0], e |-> e1 + 1]
    ELSE [s |-> s, m |-> Incr(m), e |-> e1]

\* RoundToDouble for bits whose first 1 is bit i (0: there is none)
RoundFrom(s, bits, e, sticky, i) ==
    LET L == Len(bits)
        padded == bits \o [j \in 1..(MantBits + 1) |-> 0]
        guard == padded[i + MantBits]
        rest == \E j \in (i + MantBits + 1)..L : bits[j] = 1
        up == guard = 1 /\ (sticky \/ rest \/ padded[i + MantBits - 1] = 1)
        e1 == e + (L - (i + MantBits - 1))
    IN  IF i = 0 THEN FloatZero
        ELSE The({RoundUp(s, m, e1, up) : m \in {SubSeq(padded, i, i + MantBits - 1)}})

\* the float nearest to s * (bits * 2^e + a nonzero rest below the last bit iff sticky)
RoundToDouble(s, bits, e, sticky) ==
    The({RoundFrom(s, bits, e, sticky, i) : i \in {FirstOne(bits)}})

\* long division of abits by b: the quotient bits st.q and the remainder st.r, taken
\* to the first n quotient bits (by halves)
RECURSIVE DivBits(_, _, _, _)
DivBits(st, b, abits, n) ==
    IF Len(st.q) >= n THEN st
    ELSE IF Len(st.q) + 1 = n
    THEN LET bit == IF n <= Len(abits) THEN abits[n] ELSE 0
             r2 == Norm(2 * st.r.hi, 2 * st.r.lo + bit)
             ge == IntLe(b, r2)
         IN  [r |-> IF ge THEN IntSub(r2, b) ELSE r2, q |-> Append(st.q, IF ge THEN 1 ELSE 0)]
    ELSE The({DivBits(half, b, abits, n) :
                half \in {DivBits(st, b, abits, (Len(st.q) + n) \div 2)}})

\* a / b for Python ints, b > 0: the correctly rounded quotient
FloatDiv(a, b) ==
    LET neg == a.hi < 0
        W == HiWidth + 16
        n == 2 * W + MantBits + 1
    IN  The({RoundToDouble(IF neg THEN -1 ELSE 1, d.q, W - n, d.r # PyInt(0)) :
                d \in {The({DivBits([r |-> PyInt(0), q |-> <<>>], b, abits, n) :
                               abits \in {IntBits(IF neg THEN IntNeg(a) ELSE a)}})}})

\* k * m, the mantissa m taken from its last bit up: the product's last bits st.out
\* and the carry st.c, taken to n bits of m (by halves)
RECURSIVE MulBits(_, _, _, _)
MulBits(st, k, m, n) ==
    IF Len(st.out) >= n THEN st
    ELSE IF Len(st.out) + 1 = n
    THEN LET t == IF m[Len(m) - Len(st.out)] = 1 THEN IntAdd(st.c, k) ELSE st.c
         IN  [c |-> IntHalf(t), out |-> <<t.lo % 2>> \o st.out]
    ELSE The({MulBits(half, k, m, n) : half \in {MulBits(st, k, m, (Len(st.out) + n) \div 2)}})

\* k * f for a Python int k >= 0 and a float f
FloatMul(k, f) ==
    IF k = PyInt(0) \/ f.m = <<>> THEN FloatZero
    ELSE The({RoundToDouble(f.s, bits, f.e, FALSE) :
                 bits \in {The({IntBits(p.c) \o p.out :
                                  p \in {MulBits([c |-> PyInt(0), out |-> <<>>], k, f.m, Len(f.m))}})}})

\* int(f): truncation toward zero
FloatToInt(f) ==
    LET keep == Len(f.m) + f.e
        bits == IF f.e >= 0 THEN f.m \o [j \in 1..f.e |-> 0] ELSE f.m
    IN  The({IF f.s < 0 THEN IntNeg(mag) ELSE mag :
                mag \in {IF f.m = <<>> \/ keep <= 0 THEN PyInt(0)
                         ELSE The({BitsToInt([i |-> 0, acc |-> PyInt(0)], b, keep).acc :
                                      b \in {bits}})}})

\* float("<decimal literal>"), the literal given as the fraction num/den
ParseFloat(lit) == FloatDiv(PyInt(lit.num), PyInt(lit.den))

(***************************************************************************)
(* Bounds of the model and the inputs drawn within them.                   *)
(***************************************************************************)
\* header dimensions d x d for d in 0..MaxOrig, besides the named ones
MaxOrig == 3

\* requested dimensions -1..MaxArg, besides the named ones
MaxArg == 2

\* the file whose header chunk is last is also cut short by 1..MaxCut bytes
MaxCut == 30

\* data bytes of the non-header chunks
MaxFill == 2

U32Max == [hi |-> Limb - 1, lo |-> Limb - 1]

OrigDims ==
    {<<PyInt(d), PyInt(d)>> : d \in 0..MaxOrig}
        \cup {<<PyInt(8), PyInt(8)>>, <<PyInt(49), PyInt(49)>>, <<PyInt(100), PyInt(7)>>,
              <<[hi |-> Limb \div 2, lo |-> 1], PyInt(1)>>}

\* a 32-bit field of the file format, most significant byte first
U32(n) == <<n.hi \div 256, n.hi % 256, n.lo \div 256, n.lo % 256>>

Chunk(length, type, data, crc) == U32(length) \o type \o data \o crc

GoodChunk(type, data) == Chunk(PyInt(Len(data)), type, data, U32(crc32(type \o data)))

Fill(n) == [i \in 1..n |-> 16 + i]

HeaderData(d) == U32(d[1]) \o U32(d[2]) \o <<8, 6, 0, 0, 0>>

\* a header chunk that declares (and holds) n data bytes
HeaderChunk(d, n) == GoodChunk(IHDR, SubSeq(HeaderData(d) \o Fill(n), 1, n))

Std(d) == PNG_SIGNATURE \o HeaderChunk(d, 13) \o GoodChunk(IDAT, Fill(MaxFill)) \o GoodChunk(IEND, <<>>)

\* the same file with a stale checksum in its header chunk
StaleCrc(d) ==
    PNG_SIGNATURE \o Chunk(PyInt(13), IHDR, HeaderData(d), <<0, 0, 0, 0>>)
        \o GoodChunk(IDAT, Fill(MaxFill)) \o GoodChunk(IEND, <<>>)

HeaderSecond(d) ==
    PNG_SIGNATURE \o GoodChunk(IDAT, Fill(MaxFill)) \o HeaderChunk(d, 13) \o GoodChunk(IEND, <<>>)

\* the only chunk tagged IHDR lies behind the IEND chunk
AfterEnd(d) ==
    PNG_SIGNATURE \o GoodChunk(IDAT, Fill(MaxFill)) \o GoodChunk(IEND, <<>>) \o HeaderChunk(d, 13)

NoHeader == PNG_SIGNATURE \o GoodChunk(IDAT, Fill(MaxFill)) \o GoodChunk(IEND, <<>>)

BadSignature(d) ==
    [i \in 1..Len(Std(d)) |-> IF i = 6 THEN 13 ELSE Std(d)[i]]

NonStd(d, n) ==
    PNG_SIGNATURE \o HeaderChunk(d, n) \o GoodChunk(IDAT, Fill(MaxFill + 8)) \o GoodChunk(IEND, <<>>)

\* a first chunk whose length field does not match the data it holds
Lying(length, d) ==
    PNG_SIGNATURE \o Chunk(length, IDAT, Fill(MaxFill), <<1, 2, 3, 4>>) \o HeaderChunk(d, 13)
        \o GoodChunk(IEND, <<>>)

D8 == <<PyInt(8), PyInt(8)>>

DeclaredLengths == {0, 8, 12, 16}

LyingLengths == {PyInt(0), PyInt(MaxFill + 1), PyInt(200), [hi |-> Limb \div 2, lo |-> 0], U32Max}

Buffers ==
    {Std(d) : d \in OrigDims}
        \cup {StaleCrc(D8), HeaderSecond(D8), AfterEnd(D8), NoHeader, BadSignature(D8)}
        \cup {NonStd(D8, n) : n \in DeclaredLengths}
        \cup {Lying(l, D8) : l \in LyingLengths}
        \cup {SubSeq(AfterEnd(D8), 1, Len(AfterEnd(D8)) - c) : c \in 1..MaxCut}
        \cup {SubSeq(PNG_SIGNATURE, 1, k) : k \in {0, 3, 7, 8}}

ArgInts ==
    {PyInt(n) : n \in (-1)..MaxArg} \cup {PyInt(16), U32Max, IntAdd(U32Max, PyInt(1))}

\* decimal literals of scale factors, as fractions
ScaleLiterals ==
    {[num |-> 1, den |-> 2], [num |-> 3, den |-> 2], [num |-> 2, den |-> 1],
     [num |-> 29, den |-> 100], [num |-> -1, den |-> 2], [num |-> 0, den |-> 1],
     [num |-> 6, den |-> 10]}

\* float(literal), computed once
ScaleTable == [l \in ScaleLiterals |-> ParseFloat(l)]

Call(w, h, a, s) ==
    [new_width |-> w, new_height |-> h, keep_aspect_ratio |-> a, scale_factor |-> s]

\* the calls of modify_png_dimensions
Calls ==
    {Call(w, h, FALSE, None) : w \in ArgInts, h \in {PyInt(1), PyInt(16)}}
        \cup {Call(PyInt(16), h, FALSE, None) : h \in ArgInts}
        \cup {Call(w, None, a, None) : w \in {PyInt(-1), PyInt(0), PyInt(2), PyInt(16)}, a \in BOOLEAN}
        \cup {Call(None, h, a, None) : h \in {PyInt(2), PyInt(16)}, a \in BOOLEAN}
        \cup {Call(None, None, a, None) : a \in BOOLEAN}
        \cup {Call(None, None, FALSE, ScaleTable[l]) : l \in ScaleLiterals}
        \cup {Call(w, h, FALSE, ScaleTable[[num |-> 1, den |-> 2]]) :
                w \in {None, PyInt(16)}, h \in {None, PyInt(16)}}

\* command lines: python png_size.py <command> <in> <out> <args> [-a] [-s <literal>]
CommandLines ==
    {[command |-> "view", args |-> <<>>, a |-> FALSE, s |-> None]}
        \cup {[command |-> "meta", args |-> r, a |-> a, s |-> None] :
                r \in {<<PyInt(16), PyInt(16)>>, <<PyInt(16), None>>, <<None, None>>, <<PyInt(16)>>},
                a \in BOOLEAN}
        \cup {[command |-> "meta", args |-> r, a |-> FALSE, s |-> [num |-> 1, den |-> 2]] :
                r \in {<<>>, <<PyInt(16), PyInt(16)>>}}

\* what the user types at the prompt
Answers == {"y", "Y", "n", ""}

\* the prompt's input is at its end
EOF == "<EOF>"

lower(str) == IF str = "Y" THEN "y" ELSE str

(***************************************************************************)
(* The state.  in_file and out_file are the contents of the two files; the *)
(* other variables are the arguments and locals of the running function,   *)
(* under their names in the source, f_pos the offset of the file object f  *)
(* of get_png_dimensions, and stdout the lines printed so far.             *)
(***************************************************************************)
VARIABLES argv, call, png_file, pc, in_file, out_file, stdout,
          png_data, pos, ihdr_pos, width_pos, height_pos,
          original_width, original_height, new_width, new_height,
          confirm, new_png_data, f_pos, result

vars == <<argv, call, png_file, pc, in_file, out_file, stdout,
          png_data, pos, ihdr_pos, width_pos, height_pos,
          original_width, original_height, new_width, new_height,
          confirm, new_png_data, f_pos, result>>

locals == <<png_data, pos, ihdr_pos, width_pos, height_pos,
            original_width, original_height, new_width, new_height,
            confirm, new_png_data>>

\* the printed lines
NOT_PNG == "not a valid PNG file"
NO_IHDR == "error: IHDR chunk not found"
NEED_SIZE == "error: a new width or height, or a scale factor, must be given"
NEED_ARGS == "error: width and height, or a scale factor, are needed"
INVALID_COMMAND == "invalid command or arguments"
EOF_ERROR == "error: EOF when reading a line"
STRUCT_ERROR == "error: struct.error"
INDEX_ERROR == "error: bytearray index out of range"
ZERO_DIVISION == "error: division by zero"
ORIGINAL_SIZE == "original size"
NEW_SIZE == "new size"
PNG_SIZE == "PNG size"
CANCELLED == "cancelled"
SUCCESS == "size modified"

Init ==
    /\ in_file \in Buffers
    /\ out_file = NoFile
    /\ \/ pc = "main" /\ argv \in CommandLines /\ call = None /\ png_file = "-"
       \/ pc = "modify" /\ argv = None /\ call \in Calls /\ png_file = "-"
       \/ pc = "query" /\ argv = None /\ call = None /\ png_file = "in"
    /\ stdout = <<>>
    /\ png_data = <<>> /\ new_png_data = <<>>
    /\ pos = PyInt(0)
    /\ ihdr_pos = -1 /\ width_pos = -1 /\ height_pos = -1
    /\ original_width = PyInt(0) /\ original_height = PyInt(0)
    /\ new_width = None /\ new_height = None
    /\ confirm = ""
    /\ f_pos = 0
    /\ result = None

\* print(line) and leave the function (a return, or the except clause)
Exit(line) == pc' = "exit" /\ stdout' = Append(stdout, line)

(***************************************************************************)
(* main: the dispatch of the commands view and meta.                       *)
(***************************************************************************)
\* len(sys.argv)
argc == 4 + Len(argv.args) + (IF argv.a THEN 1 ELSE 0) + (IF argv.s # None THEN 2 ELSE 0)

main ==
    /\ pc = "main"
    /\ UNCHANGED <<argv, in_file, out_file, locals, f_pos, result>>
    /\ IF argv.command = "view"
       THEN png_file' = "in" /\ pc' = "query" /\ UNCHANGED <<call, stdout>>
       ELSE /\ png_file' = png_file
            /\ IF argc < 6 THEN Exit(INVALID_COMMAND) /\ call' = call
               ELSE IF argv.s # None
               THEN /\ call' = Call(None, None, FALSE, ParseFloat(argv.s))
                    /\ pc' = "modify" /\ stdout' = stdout
               ELSE IF Len(argv.args) >= 2
               THEN /\ call' = Call(argv.args[1], argv.args[2], argv.a, None)
                    /\ pc' = "modify" /\ stdout' = stdout
               ELSE Exit(NEED_ARGS) /\ call' = call

(***************************************************************************)
(* modify_png_dimensions                                                   *)
(***************************************************************************)
\* a variant of ValidSignature: only the first 4 bytes are compared
ValidSignatureMagic(data) == Len(data) >= 4 /\ SubSeq(data, 1, 4) = SubSeq(PNG_SIGNATURE, 1, 4)

ValidSignature(data) == data = PNG_SIGNATURE

\* lines 60-73: read the file, check the signature
modify_open ==
    /\ pc = "modify"
    /\ png_data' = in_file
    /\ IF ValidSignature(Slice(in_file, 0, 8))
       THEN pc' = "walk" /\ pos' = PyInt(8) /\ stdout' = stdout
       ELSE Exit("error: " \o NOT_PNG) /\ pos' = pos
    /\ UNCHANGED <<argv, call, png_file, in_file, out_file, ihdr_pos, width_pos, height_pos,
                   original_width, original_height, new_width, new_height,
                   confirm, new_png_data, f_pos, result>>

\* line 84
WidthPos(p) == p + 8

\* a variant of HeightPos: the height taken 8 bytes after the width
HeightPosOverlap(wp) == wp + 8

\* line 85
HeightPos(wp) == wp + 4

\* a variant of NextChunk: the 4 checksum bytes are not skipped
NextChunkNoCrc(p, chunk_length) == IntAdd(p, IntAdd(PyInt(8), chunk_length))

\* a variant of NextChunk: only the data bytes are skipped
NextChunkNoHeader(p, chunk_length) == IntAdd(p, chunk_length)

\* pos += 12 + chunk_length
NextChunk(p, chunk_length) == IntAdd(p, IntAdd(PyInt(12), chunk_length))

\* lines 75-92: one pass of the loop that looks for the IHDR chunk
modify_walk ==
    /\ pc = "walk"
    /\ UNCHANGED <<argv, call, png_file, in_file, out_file, png_data, new_width, new_height,
                   confirm, new_png_data, f_pos, result>>
    /\ IF ~IntLt(pos, PyInt(Len(png_data))) \/ Small(pos) + 8 > Len(png_data)
       THEN /\ pc' = "found"
            /\ UNCHANGED <<pos, ihdr_pos, width_pos, height_pos,
                           original_width, original_height, stdout>>
       ELSE LET p == Small(pos)
                chunk_length == unpack(Slice(png_data, p, p + 4))
                chunk_type == Slice(png_data, p + 4, p + 8)
                width_bytes == Slice(png_data, WidthPos(p), WidthPos(p) + 4)
                height_bytes == Slice(png_data, HeightPos(WidthPos(p)), HeightPos(WidthPos(p)) + 4)
            IN  IF chunk_type = IHDR
                THEN /\ ihdr_pos' = p /\ width_pos' = WidthPos(p)
                     /\ height_pos' = HeightPos(WidthPos(p))
                     /\ pos' = pos
                     /\ IF ~CanUnpack(width_bytes)
                        THEN Exit(STRUCT_ERROR) /\ UNCHANGED <<original_width, original_height>>
                        ELSE /\ original_width' = unpack(width_bytes)
                             /\ IF ~CanUnpack(height_bytes)
                                THEN Exit(STRUCT_ERROR) /\ original_height' = original_height
                                ELSE /\ original_height' = unpack(height_bytes)
                                     /\ pc' = "found" /\ stdout' = stdout
                ELSE /\ pos' = NextChunk(pos, chunk_length)
                     /\ pc' = "walk"
                     /\ UNCHANGED <<ihdr_pos, width_pos, height_pos,
                                    original_width, original_height, stdout>>

\* lines 94-97
modify_found ==
    /\ pc = "found"
    /\ IF ihdr_pos = -1
       THEN Exit(NO_IHDR)
       ELSE pc' = "dims" /\ stdout' = Append(stdout, ORIGINAL_SIZE)
    /\ UNCHANGED <<argv, call, png_file, in_file, out_file, locals, f_pos, result>>

\* a variant of MissingSize: one missing value is enough
MissingSizeEither(w, h) == w = None \/ h = None

\* line 104
MissingSize(w, h) == w = None /\ h = None

\* line 100
UsesScale(scale_factor) == scale_factor # None

\* a variant of int: round(x), halves away from zero
RoundFloat(f) ==
    LET down == FloatToInt([f EXCEPT !.s = 1])
        half == f.m # <<>> /\ Len(f.m) + f.e >= 0 /\ f.e < 0 /\ f.m[Len(f.m) + f.e + 1] = 1
        mag == IF half THEN IntAdd(down, PyInt(1)) ELSE down
    IN  IF f.s < 0 THEN IntNeg(mag) ELSE mag

\* int(x) of a float x
int(f) == FloatToInt(f)

\* int(original * scale_factor)
Scaled(original, scale_factor) == The({int(x) : x \in {FloatMul(original, scale_factor)}})

\* int(other * (given / original)), original # 0
Proportional(other, given, original) ==
    The({int(x) : x \in {The({FloatMul(other, ratio) : ratio \in {FloatDiv(given, original)}})}})

\* max(1, int(n)) of an int n
AtLeastOne(n) == IntMax(PyInt(1), n)

\* lines 99-127: the new size
modify_dims ==
    /\ pc = "dims"
    /\ UNCHANGED <<argv, call, png_file, in_file, out_file, png_data, pos, ihdr_pos, width_pos,
                   height_pos, original_width, original_height, confirm, new_png_data,
                   f_pos, result>>
    /\ LET w == call.new_width
           h == call.new_height
           Done(nw, nh) == /\ new_width' = AtLeastOne(nw) /\ new_height' = AtLeastOne(nh)
                           /\ pc' = "confirm" /\ stdout' = Append(stdout, NEW_SIZE)
           Raise(line) == Exit(line) /\ UNCHANGED <<new_width, new_height>>
       IN  IF UsesScale(call.scale_factor)
           THEN Done(Scaled(original_width, call.scale_factor),
                     Scaled(original_height, call.scale_factor))
           ELSE IF MissingSize(w, h) THEN Raise(NEED_SIZE)
           ELSE IF w # None /\ h # None THEN Done(w, h)
           ELSE IF w # None
           THEN IF ~call.keep_aspect_ratio THEN Done(w, original_height)
                ELSE IF original_width = PyInt(0) THEN Raise(ZERO_DIVISION)
                ELSE Done(w, Proportional(original_height, w, original_width))
           ELSE IF ~call.keep_aspect_ratio THEN Done(original_width, h)
                ELSE IF original_height = PyInt(0) THEN Raise(ZERO_DIVISION)
                ELSE Done(Proportional(original_width, h, original_height), h)

\* a variant of Confirmed: the answer is not looked at
AnyAnswer(answer) == TRUE

\* line 135: the answer that lets the patch go on
Confirmed(answer) == answer = "y"

\* lines 134-137
modify_confirm ==
    /\ pc = "confirm"
    /\ \E answer \in Answers \cup {EOF} :
          IF answer = EOF
          THEN Exit(EOF_ERROR) /\ confirm' = confirm
          ELSE /\ confirm' = lower(answer)
               /\ IF Confirmed(lower(answer))
                  THEN pc' = "width" /\ stdout' = stdout
                  ELSE Exit(CANCELLED)
    /\ UNCHANGED <<argv, call, png_file, in_file, out_file, png_data, pos, ihdr_pos, width_pos,
                   height_pos, original_width, original_height, new_width, new_height,
                   new_png_data, f_pos, result>>

\* for i in range(4): buf[at + i] = b[i], as far as the buffer reaches
Store(buf, at, b) ==
    [j \in 1..Len(buf) |-> IF j - 1 >= at /\ j - 1 < at + 4 THEN b[j - at] ELSE buf[j]]

\* no IndexError in that loop
CanStore(buf, at) == at + 4 <= Len(buf)

\* lines 140-145
modify_width ==
    /\ pc = "width"
    /\ IF ~CanPack(new_width)
       THEN Exit(STRUCT_ERROR) /\ new_png_data' = png_data
       ELSE /\ new_png_data' = Store(png_data, width_pos, pack(new_width))
            /\ IF CanStore(png_data, width_pos)
               THEN pc' = "height" /\ stdout' = stdout
               ELSE Exit(INDEX_ERROR)
    /\ UNCHANGED <<argv, call, png_file, in_file, out_file, png_data, pos, ihdr_pos, width_pos,
                   height_pos, original_width, original_height, new_width, new_height,
                   confirm, f_pos, result>>

\* lines 148-150
modify_height ==
    /\ pc = "height"
    /\ IF ~CanPack(new_height)
       THEN Exit(STRUCT_ERROR) /\ new_png_data' = new_png_data
       ELSE /\ new_png_data' = Store(new_png_data, height_pos, pack(new_height))
            /\ IF CanStore(new_png_data, height_pos)
               THEN pc' = "crc" /\ stdout' = stdout
               ELSE Exit(INDEX_ERROR)
    /\ UNCHANGED <<argv, call, png_file, in_file, out_file, png_data, pos, ihdr_pos, width_pos,
                   height_pos, original_width, original_height, new_width, new_height,
                   confirm, f_pos, result>>

\* line 154
ihdr_end(hp) == hp + 4 + 5

\* line 153
ihdr_start(wp) == wp - 4

\* line 157
crc_data == Slice(png_data, ihdr_start(width_pos), ihdr_end(height_pos))

\* lines 153-164
modify_crc ==
    /\ pc = "crc"
    /\ \E crc_value \in {crc32(crc_data)} :
          \E new_crc_bytes \in {pack(crc_value)} :
             LET crc_pos == ihdr_end(height_pos)
             IN  /\ new_png_data' = Store(new_png_data, crc_pos, new_crc_bytes)
                 /\ IF CanStore(new_png_data, crc_pos)
                    THEN pc' = "write" /\ stdout' = stdout
                    ELSE Exit(INDEX_ERROR)
    /\ UNCHANGED <<argv, call, png_file, in_file, out_file, png_data, pos, ihdr_pos, width_pos,
                   height_pos, original_width, original_height, new_width, new_height,
                   confirm, f_pos, result>>

\* lines 167-172
modify_write ==
    /\ pc = "write"
    /\ out_file' = new_png_data
    /\ Exit(SUCCESS)
    /\ UNCHANGED <<argv, call, png_file, in_file, locals, f_pos, result>>

(***************************************************************************)
(* get_png_dimensions(png_file)                                            *)
(***************************************************************************)
File(name) == IF name = "out" THEN out_file ELSE in_file

\* f.read(n) at offset at, and the offset after it
Read(data, at, n) == Slice(data, at, at + n)

Tell(data, at, n) == Min(at + n, Len(data))

\* lines 8-13
query_open ==
    /\ pc = "query"
    /\ f_pos' = Tell(File(png_file), 0, 8)
    /\ IF ValidSignature(Read(File(png_file), 0, 8))
       THEN pc' = "read" /\ stdout' = stdout
       ELSE Exit(NOT_PNG)
    /\ result' = None
    /\ UNCHANGED <<argv, call, png_file, in_file, out_file, locals>>

\* f.read(chunk_length + 4) at offset at: the offset after it
Skip(data, at, chunk_length) ==
    LET to == IntAdd(PyInt(at), IntAdd(chunk_length, PyInt(4)))
    IN  IF IntLt(PyInt(Len(data)), to) THEN Len(data) ELSE Small(to)

\* lines 16-37: one pass of the loop
query_read ==
    /\ pc = "read"
    /\ UNCHANGED <<argv, call, png_file, in_file, out_file, locals>>
    /\ LET data == File(png_file)
           chunk_length_data == Read(data, f_pos, 4)
           chunk_type == Read(data, f_pos + 4, 4)
           width_data == Read(data, f_pos + 8, 4)
           height_data == Read(data, f_pos + 12, 4)
           Return(line) == Exit(line) /\ result' = None
       IN  IF chunk_length_data = <<>>
           THEN pc' = "exit" /\ UNCHANGED <<stdout, f_pos, result>>
           ELSE IF ~CanUnpack(chunk_length_data)
           THEN Return(STRUCT_ERROR) /\ f_pos' = Tell(data, f_pos, 4)
           ELSE IF chunk_type = IHDR
           THEN /\ f_pos' = Tell(data, f_pos, 16)
                /\ IF CanUnpack(width_data) /\ CanUnpack(height_data)
                   THEN /\ result' = [width |-> unpack(width_data), height |-> unpack(height_data)]
                        /\ Exit(PNG_SIZE)
                   ELSE Return(STRUCT_ERROR)
           ELSE /\ f_pos' = Skip(data, Tell(data, f_pos, 8), unpack(chunk_length_data))
                /\ pc' = "read"
                /\ UNCHANGED <<stdout, result>>

\* a second run of the program: view <the file just written>
view_output ==
    /\ pc = "exit" /\ out_file # NoFile /\ png_file = "-"
    /\ png_file' = "out"
    /\ pc' = "query"
    /\ UNCHANGED <<argv, call, in_file, out_file, stdout, locals, f_pos, result>>

Next ==
    \/ main
    \/ modify_open \/ modify_walk \/ modify_found \/ modify_dims \/ modify_confirm
    \/ modify_width \/ modify_height \/ modify_crc \/ modify_write
    \/ query_open \/ query_read
    \/ view_output

Spec == Init /\ [][Next]_vars

\* each run is carried through: the program is sequential and does not stop midway
FairSpec == Spec /\ WF_vars(Next)

(***************************************************************************)
(* The properties.                                                         *)
(***************************************************************************)
\* the header patch succeeded and wrote its output
Patched == out_file # NoFile

\* a run of modify_png_dimensions has ended
ModifyDone == call # None /\ pc = "exit" /\ png_file = "-"

\* a run of get_png_dimensions on the named file has ended
QueryDone(name) == png_file = name /\ pc = "exit"

Last(seq) == seq[Len(seq)]

Contains(seq, x) == \E i \in 1..Len(seq) : seq[i] = x

BadSig(buf) == Len(buf) < 8 \/ \E i \in 1..8 : buf[i] # PNG_SIGNATURE[i]

\* the data length the header chunk found at ihdr_pos declares
Declared == unpack(Slice(in_file, ihdr_pos, ihdr_pos + 4))

\* offset i lies in the span of the header chunk: 4 length bytes, 4 type bytes, the
\* declared data bytes and 4 checksum bytes
InSpan(i) == i >= ihdr_pos /\ IntLt(PyInt(i), IntAdd(PyInt(ihdr_pos + 12), Declared))

Explicit == call # None /\ call.scale_factor = None /\ call.new_width # None /\ call.new_height # None

(* C1: after a successful header patch, the 4 bytes stored in the output right   *)
(* after the header chunk's data region are the CRC-32 of the chunk's type tag   *)
(* and data region as they stand in the output.                                  *)
C1_StoredCrcMatchesOutput ==
    Patched =>
        LET n == unpack(Slice(out_file, ihdr_pos, ihdr_pos + 4))
            crc_offset == ihdr_pos + 8 + n.lo
        IN  (n.hi = 0 /\ crc_offset + 4 <= Len(out_file)) =>
                Slice(out_file, crc_offset, crc_offset + 4)
                    = U32(crc32(Slice(out_file, ihdr_pos + 4, crc_offset)))

\* the 8 x 8 file patched to 16 x 16: the checksum stored is that of the 8 x 8 header
C1_Witness ==
    /\ Patched /\ in_file = Std(D8)
    /\ new_width = PyInt(16) /\ new_height = PyInt(16)
    /\ Slice(out_file, 29, 33) = U32(crc32(Slice(in_file, 12, 29)))
    /\ Slice(out_file, 29, 33) # U32(crc32(Slice(out_file, 12, 29)))

(* C2: when the patch succeeded with explicit width w and height h,              *)
(* 1 <= w, h < 2^32, the dimension query on the written output returns (w, h).   *)
C2_QueryReturnsPatched ==
    (/\ QueryDone("out") /\ Explicit
     /\ IntLe(PyInt(1), call.new_width) /\ IntLe(call.new_width, U32Max)
     /\ IntLe(PyInt(1), call.new_height) /\ IntLe(call.new_height, U32Max))
        => result = [width |-> call.new_width, height |-> call.new_height]

C2_Witness ==
    /\ QueryDone("out") /\ Explicit
    /\ call.new_width = U32Max /\ call.new_height = PyInt(16)
    /\ original_width = PyInt(8)
    /\ result = [width |-> U32Max, height |-> PyInt(16)]

(* C3: after a successful patch every output byte outside the header  *)
(* chunk's span (by its declared data length) equals the input byte at the same  *)
(* offset, whatever length the header chunk declares.                            *)
C3_OutsideSpanUnchanged ==
    Patched =>
        /\ Len(out_file) = Len(in_file)
        /\ \A i \in 0..(Len(in_file) - 1) : ~InSpan(i) => out_file[i + 1] = in_file[i + 1]

\* a header chunk declaring fewer than 13 bytes: a byte of the next chunk is changed
C3_Witness ==
    /\ Patched
    /\ IntLt(Declared, PyInt(13))
    /\ \E i \in 0..(Len(in_file) - 1) : ~InSpan(i) /\ out_file[i + 1] # in_file[i + 1]

(***************************************************************************)
(* Exact arithmetic on small integers, for C4.                             *)
(***************************************************************************)
IsSmall(n) == n.hi = 0 /\ n.lo < 2 ^ 15

\* an original size within the claim: at least 1
IsSize(n) == IsSmall(n) /\ n.lo >= 1

\* a / b truncated toward zero, b > 0
TruncDiv(a, b) == IF a >= 0 THEN a \div b ELSE -((-a) \div b)

\* a / b rounded to the nearest integer, ties to the even one (Python's round), b > 0
RoundDiv(a, b) ==
    LET q == (2 * a + b) \div (2 * b)
    IN  IF (2 * a + b) % (2 * b) = 0 /\ q % 2 = 1 THEN q - 1 ELSE q

\* a / b is a binary fraction, so a double holds it exactly (b > 0, small)
IsBinaryFraction(a, b) == \E k \in 0..15 : (a * 2 ^ k) % b = 0

AtLeast1(n) == IF n < 1 THEN 1 ELSE n

\* the literal whose float the call passes as scale_factor
ScaleOf(c) == CHOOSE l \in ScaleLiterals : ScaleTable[l] = c.scale_factor

\* the new size has been computed
Computed == call # None /\ new_width # None /\ new_height # None

ScalePath == Computed /\ call.scale_factor # None /\ IsSize(original_width) /\ IsSize(original_height)

\* only the width given, the aspect ratio kept
WidthLocked ==
    /\ Computed /\ call.scale_factor = None /\ call.keep_aspect_ratio
    /\ call.new_width # None /\ call.new_height = None
    /\ IsSmall(call.new_width) /\ IsSize(original_width) /\ IsSize(original_height)

\* only the height given, the aspect ratio kept
HeightLocked ==
    /\ Computed /\ call.scale_factor = None /\ call.keep_aspect_ratio
    /\ call.new_height # None /\ call.new_width = None
    /\ IsSmall(call.new_height) /\ IsSize(original_width) /\ IsSize(original_height)

Truncated(n, a, b, exact) ==
    \/ n = PyInt(AtLeast1(TruncDiv(a, b)))
    \/ ~exact /\ n = PyInt(AtLeast1(TruncDiv(a, b) - 1))

SuppliesScale == call.scale_factor # None

SuppliesExplicit == call.new_width # None \/ call.new_height # None

\* the patch has read the original size of a header chunk and went on to compute the new one
PastDims == call # None /\ pc \in {"confirm", "width", "height", "crc", "write"}

\* the patch has ended, and had found a header chunk with its size
EndedAfterHeader == ModifyDone /\ Contains(stdout, ORIGINAL_SIZE)

C6_BadSignatureRejected ==
    BadSig(in_file) =>
        /\ (call # None /\ png_file = "-") =>
              /\ pc \in {"modify", "exit"}
              /\ pos = PyInt(0) /\ ihdr_pos = -1
              /\ new_width = None /\ new_height = None
              /\ out_file = NoFile
              /\ pc = "exit" => stdout = <<"error: " \o NOT_PNG>>
        /\ png_file = "in" =>
              /\ pc \in {"query", "exit"}
              /\ f_pos <= 8
              /\ result = None
              /\ pc = "exit" => stdout = <<NOT_PNG>>
        /\ png_file # "out"

\* a full-length buffer with one signature byte wrong, explicit size arguments
C6_Witness ==
    /\ BadSig(in_file) /\ Len(in_file) > 8
    /\ ModifyDone /\ Explicit
    /\ stdout = <<"error: " \o NOT_PNG>>

(* C7: the output is written only after the signature check passed, the header   *)
(* chunk was found, the new size was computed from valid arguments and the       *)
(* answer to the confirmation was affirmative, in that order; when the caller    *)
(* cancels or a step fails no output is written, never a partially changed       *)
(* buffer.                                                                       *)
C7_OutputOnlyAfterAllSteps ==
    /\ Patched =>
          /\ ~BadSig(in_file)
          /\ ihdr_pos # -1 /\ ihdr_pos + 8 <= Len(in_file)
          /\ Slice(in_file, ihdr_pos + 4, ihdr_pos + 8) = IHDR
          /\ SuppliesScale \/ SuppliesExplicit
          /\ new_width # None /\ new_height # None
          /\ IntLe(PyInt(1), new_width) /\ IntLe(new_width, U32Max)
          /\ IntLe(PyInt(1), new_height) /\ IntLe(new_height, U32Max)
          /\ confirm = "y"
          /\ SubSeq(stdout, 1, 3) = <<ORIGINAL_SIZE, NEW_SIZE, SUCCESS>>
          /\ out_file = new_png_data
          /\ Len(out_file) = Len(in_file)
          /\ Slice(out_file, ihdr_pos + 8, ihdr_pos + 12) = U32(new_width)
          /\ Slice(out_file, ihdr_pos + 12, ihdr_pos + 16) = U32(new_height)
          /\ ihdr_pos + 25 <= Len(out_file)
    /\ (pc # "exit" /\ png_file = "-") => out_file = NoFile
    /\ (pc = "exit" /\ png_file = "-" /\ (stdout = <<>> \/ Last(stdout) # SUCCESS)) =>
          out_file = NoFile

\* the copy in memory has the new width and height, the checksum cannot be stored:
\* nothing is written
C7_Witness ==
    /\ ModifyDone /\ confirm = "y"
    /\ Last(stdout) = INDEX_ERROR
    /\ new_png_data # <<>> /\ new_png_data # png_data
    /\ out_file = NoFile

(* C8: when the header chunk declares the standard 13 data bytes and the patch   *)
(* succeeds, the output is as long as the input, the five header fields at       *)
(* data_offset+8 .. data_offset+12 are those of the input, and only the 8        *)
(* width/height bytes and the 4 checksum bytes of the header chunk may differ.   *)
C8_StandardHeaderPreserved ==
    (Patched /\ Declared = PyInt(13)) =>
        LET data_offset == ihdr_pos + 8
        IN  /\ Len(out_file) = Len(in_file)
            /\ Slice(out_file, data_offset + 8, data_offset + 13)
                  = Slice(in_file, data_offset + 8, data_offset + 13)
            /\ Len(Slice(in_file, data_offset + 8, data_offset + 13)) = 5
            /\ \A i \in 0..(Len(in_file) - 1) :
                  out_file[i + 1] # in_file[i + 1] =>
                      \/ i >= data_offset /\ i < data_offset + 8
                      \/ i >= data_offset + 13 /\ i < data_offset + 17

C8_Witness ==
    /\ Patched /\ Declared = PyInt(13)
    /\ new_width # original_width /\ new_height # original_height
    /\ Slice(out_file, ihdr_pos + 8, ihdr_pos + 16) # Slice(in_file, ihdr_pos + 8, ihdr_pos + 16)

\* the offset of the chunk that follows the chunk at p by its declared length, the end
\* of the buffer when that length runs past it
Following(buf, p) ==
    LET to == IntAdd(PyInt(p + 12), unpack(Slice(buf, p, p + 4)))
    IN  IF IntLt(PyInt(Len(buf)), to) THEN Len(buf) ELSE Small(to)

RECURSIVE FirstTagged(_, _, _)
\* the offset of the first chunk at or after p, going from chunk to chunk, whose tag is
\* one of tags; -1 when fewer than 8 bytes remain before one is met
FirstTagged(buf, p, tags) ==
    IF p + 8 > Len(buf) THEN -1
    ELSE IF Slice(buf, p + 4, p + 8) \in tags THEN p
    ELSE FirstTagged(buf, Following(buf, p), tags)

\* a valid signature, and the only chunk tagged IHDR lies after an IEND chunk
HeaderAfterEnd(buf) ==
    /\ ~BadSig(buf)
    /\ LET e == FirstTagged(buf, 8, {IHDR, IEND})
       IN  /\ e # -1
           /\ Slice(buf, e + 4, e + 8) = IEND
           /\ FirstTagged(buf, e, {IHDR}) # -1

\* the walk of the patch is over
Walked == call # None /\ png_file = "-" /\ pc \notin {"main", "modify", "walk"}

(* C9, as stated: the chunk walk of the patch and of the query stops at a chunk  *)
(* tagged IEND: when the only chunk tagged IHDR lies after an IEND chunk, the    *)
(* walk finds no header and the operation fails with the missing-header outcome. *)
C9_WalkStopsAtEnd ==
    HeaderAfterEnd(in_file) =>
        /\ Walked => ihdr_pos = -1 /\ out_file = NoFile
        /\ ModifyDone => Last(stdout) = NO_IHDR
        /\ QueryDone("in") => result = None

(* C9, amended: the chunk walk does not stop at a chunk tagged IEND; it stops at *)
(* the first chunk tagged IHDR it meets going from chunk to chunk, or when fewer *)
(* than 8 bytes remain. When the only chunk tagged IHDR lies after an IEND       *)
(* chunk, the patch takes that chunk as the header and the query returns the     *)
(* size stored in it; the missing-header outcome is reported only when no chunk  *)
(* tagged IHDR is met up to the end of the buffer.                               *)
C9_WalkIgnoresEnd ==
    LET h == FirstTagged(in_file, 8, {IHDR})
    IN  /\ (Walked /\ ~BadSig(in_file)) =>
              /\ ihdr_pos = h
              /\ Contains(stdout, NO_IHDR) <=> (h = -1 /\ pc = "exit")
        /\ (QueryDone("in") /\ HeaderAfterEnd(in_file) /\ h + 16 <= Len(in_file)) =>
              result = [width |-> unpack(Slice(in_file, h + 8, h + 12)),
                        height |-> unpack(Slice(in_file, h + 12, h + 16))]
        /\ (Patched /\ HeaderAfterEnd(in_file)) =>
              /\ Slice(out_file, h + 8, h + 12) = U32(new_width)
              /\ Slice(out_file, h + 12, h + 16) = U32(new_height)

\* the header chunk behind the IEND chunk has been patched
C9_Witness ==
    /\ HeaderAfterEnd(in_file) /\ Patched
    /\ ihdr_pos > FirstTagged(in_file, 8, {IEND})
    /\ new_width # original_width
    /\ Slice(out_file, ihdr_pos + 8, ihdr_pos + 12) # Slice(in_file, ihdr_pos + 8, ihdr_pos + 12)

\* no run is left to do
Terminated == pc = "exit" /\ (out_file = NoFile \/ png_file = "out")

\* a step of the walk of the patch that goes on to another chunk
PatchStep == pc = "walk" /\ pc' = "walk"

\* a step of the walk of the query that goes on to another chunk
QueryStep == pc = "read" /\ pc' = "read"

(* C10: the chunk walk terminates on every buffer, whatever the length fields    *)
(* hold: every step to another chunk moves the cursor forward by at least 12     *)
(* (the query's file position stops at the end of the file when the chunk runs   *)
(* past it, and the walk then stops), the walk stops when fewer than 8 bytes     *)
(* remain, and every run ends in a reported outcome.                             *)
C10_WalkTerminates ==
    /\ [][PatchStep => /\ IntLe(IntAdd(pos, PyInt(12)), pos')
                       /\ Small(pos) + 8 <= Len(png_data)]_vars
    /\ [][QueryStep => /\ f_pos + 4 <= Len(File(png_file))
                       /\ f_pos' = Following(File(png_file), f_pos)
                       /\ f_pos' >= f_pos + 12 \/ f_pos' = Len(File(png_file))]_vars
    /\ [](ModifyDone => stdout # <<>>)
    /\ <>[]Terminated

\* a first chunk whose declared length runs far past the end: the walk stopped there
C10_Witness ==
    /\ ModifyDone
    /\ IntLt(PyInt(Len(png_data) + 200), pos)
    /\ Last(stdout) = NO_IHDR

====
